---- MODULE Spec2Model ----
(***************************************************************************)
(* A model of sigroot_applet_interface (src/src/lib.rs): the client-side   *)
(* AppletInterface session that talks to the LED matrix board program over *)
(* one TCP stream, one JSON command per request and one raw status byte    *)
(* per response.                                                            *)
(*                                                                         *)
(* Arrays and vectors keep the source's zero-based indices: a [u8; 9] is a *)
(* function on 0..8, the grid a function on 0..9 of such rows.  The two    *)
(* blocking calls inside new / write_grid / write_bar (write_all, then     *)
(* read_exact) split each of them into a "send" step and a "return" step,  *)
(* between which the board may act.                                         *)
(***************************************************************************)
EXTENDS Integers, Sequences, FiniteSets, TLC

\* ------------------------------------------------------------------ bounds

\* Connection slots: each slot is one call of AppletInterface::new.
MaxConn == 2
\* Commands one connection may carry (CreateApplet included).
MaxCmds == 3
\* set_point calls per session.
MaxPoints == 1

\* --------------------------------------------------------- program constants

\* grid: [[u8; 9]; 10]
ROWS == 10
COLS == 9
\* if app_num > 3
MaxAppNum == 3

Conns == 1..MaxConn
Byte == 0..255
RowIdx == 0..(ROWS - 1)
ColIdx == 0..(COLS - 1)

Separator == {"Empty", "Solid", "Dotted", "Variable"}
Opcode == {"CreateApplet", "UpdateGrid", "UpdateBar"}

\* ------------------------------------------------------------------ results

Ok == [kind |-> "Ok", msg |-> ""]
Err(kind, msg) == [kind |-> kind, msg |-> msg]

\* The error read_exact returns when the stream ends before the buffer is full.
UnexpectedEof == Err("UnexpectedEof", "failed to fill whole buffer")
\* The error TcpStream::connect returns when nothing accepts the connection.
ConnectFailed == Err("ConnectionRefused", "os error")

\* ------------------------------------------------------------------- inputs

\* Applet numbers handed to new(): the status bar, the last valid applet, the
\* first invalid number and the largest u8.
AppNums == {0, MaxAppNum, MaxAppNum + 1, 255}

ZeroGrid == [i \in RowIdx |-> [j \in ColIdx |-> 0]]
ZeroBar == [j \in ColIdx |-> 0]
\* pattern1 of tests::test_image: every cell distinct.
Pattern1 == [i \in RowIdx |-> [j \in ColIdx |-> i * 10 + j + 1]]
GridInputs == {Pattern1}
\* [25; 9] of tests::applet_0_grid_fail.
BarInputs == {[j \in ColIdx |-> 25]}

\* Status bytes the board may answer with: every byte of the documented
\* table, and bytes outside it.
TabledCodes == {0, 10, 20, 21, 30, 31, 32, 33, 34, 40}
StatusBytes == TabledCodes \cup {1, 255}

\* -------------------------------------------------------------------- state

VARIABLES
    pc,              \* per slot: where the caller of this session stands
    stream,          \* per slot: the TCP connection
    app_num,         \* per slot: AppletInterface.app_num
    separator_type,  \* per slot: AppletInterface.separator_type
    grid,            \* per slot: AppletInterface.grid
    separator,       \* per slot: AppletInterface.separator
    sent,            \* per slot: the commands written to the stream, in order
    seen,            \* per slot: how many of them the board has processed
    inbox,           \* per slot: status bytes written by the board, unread
    nread,           \* per slot: status bytes read_exact has delivered
    rdfail,          \* per slot: a read_exact on the stream has failed
    npoints,         \* per slot: set_point calls made
    owner,           \* board: the slot that created each applet (0: nobody)
    ret              \* the call that returned last, and what it returned

vars == <<pc, stream, app_num, separator_type, grid, separator, sent, seen,
          inbox, nread, rdfail, npoints, owner, ret>>

\* A returned call: the slot, the operation, its first and second integer
\* arguments and its value argument (0 where it has none), the status byte its
\* read_exact delivered (-1: none was read), and the result.
NoCall ==
    [conn |-> 0, op |-> "none", a |-> 0, b |-> 0, v |-> 0, byte |-> -1, res |-> Ok]
Return(c, op, a, b, v, byte, res) ==
    [conn |-> c, op |-> op, a |-> a, b |-> b, v |-> v, byte |-> byte, res |-> res]
\* No call has returned since slot c entered the call it is blocked in. What
\* held when the call began is kept: a = 1 when the peer had already closed
\* the connection, b = 1 when the session's previous call was a write that
\* returned the error of a status byte.
Blocked(c) ==
    Return(c, "blocked",
           IF stream[c] = "peer_closed" THEN 1 ELSE 0,
           IF /\ ret.conn = c /\ ret.op \in {"write_grid", "write_bar"}
              /\ ret.byte \notin {-1, 0}
           THEN 1 ELSE 0,
           0, -1, Ok)

Init ==
    /\ pc = [c \in Conns |-> "start"]
    /\ stream = [c \in Conns |-> "unopened"]
    /\ app_num = [c \in Conns |-> 0]
    /\ separator_type = [c \in Conns |-> "Empty"]
    /\ grid = [c \in Conns |-> ZeroGrid]
    /\ separator = [c \in Conns |-> ZeroBar]
    /\ sent = [c \in Conns |-> <<>>]
    /\ seen = [c \in Conns |-> 0]
    /\ inbox = [c \in Conns |-> <<>>]
    /\ nread = [c \in Conns |-> 0]
    /\ rdfail = [c \in Conns |-> FALSE]
    /\ npoints = [c \in Conns |-> 0]
    /\ owner = [n \in 0..MaxAppNum |-> 0]
    /\ ret = NoCall

\* ------------------------------------------------------------- command codec

Command(opcode, n, parameters) ==
    [opcode |-> opcode, app_num |-> n, parameters |-> parameters]

\* vec![0; n]
ZeroVec(n) == [k \in 0..(n - 1) |-> 0]

\* new_validate with the limit off by one: applet number 4 passes.
new_validate_off_by_one(n) ==
    IF n > MaxAppNum + 1 THEN Err("InvalidInput", "app_num maximum is 3") ELSE Ok

\* new: if app_num > 3 { return Err(InvalidInput, "app_num maximum is 3") }
new_validate(n) ==
    IF n > MaxAppNum THEN Err("InvalidInput", "app_num maximum is 3") ELSE Ok

\* new: parameters: match separator_type { Empty => [0] ... Variable => [3] }
separator_param(sep) ==
    CASE sep = "Empty" -> [k \in 0..0 |-> 0]
      [] sep = "Solid" -> [k \in 0..0 |-> 1]
      [] sep = "Dotted" -> [k \in 0..0 |-> 2]
      [] sep = "Variable" -> [k \in 0..0 |-> 3]

create_command(n, sep) == Command("CreateApplet", n, separator_param(sep))

\* new_status that takes "applet already exists" for success.
new_status_exists_ok(byte) ==
    IF byte \notin {0, 33, 34}
    THEN Err("ConnectionRefused", "Board refused connection")
    ELSE Ok

\* new_status that refuses only the unknown code.
new_status_unknown_only(byte) ==
    IF byte = 255 THEN Err("ConnectionRefused", "Board refused connection") ELSE Ok

\* new: if buffer[0] != 0 { return Err(ConnectionRefused, ...) }
new_status(byte) ==
    IF byte # 0 THEN Err("ConnectionRefused", "Board refused connection") ELSE Ok

\* ------------------------------------------------------------------- stream

\* let mut buffer = [255]: the one-byte buffer before read_exact.
BufferInit == 255

\* read_failed with the error dropped and the untouched buffer matched.
read_failed_ignored(buffer) ==
    IF buffer = 0 THEN Ok ELSE Err("Other", "Unkown Error")

\* stream.read_exact(&mut buffer)?: a failed read leaves the call through `?`
\* with the io::Error; the buffer is not looked at.
read_failed(buffer) == UnexpectedEof

\* stream.write_all(bytes), its Result dropped by the caller: on an open
\* connection the command goes onto the wire; once the peer has closed, the
\* write may still put it on the wire or fail, and the caller goes on alike.
write_all(c, cmd) ==
    IF stream[c] = "open"
    THEN {Append(sent[c], cmd)}
    ELSE {Append(sent[c], cmd), sent[c]}

\* stream.read_exact(&mut buffer) can return: a byte is there to read, or the
\* peer has closed and nothing is left to read.  Otherwise it blocks.
CanRead(c) == inbox[c] # <<>>
AtEof(c) == inbox[c] = <<>> /\ stream[c] = "peer_closed"

\* ---------------------------------------------------------------------- new

\* AppletInterface::new up to its read_exact: validation, connect, CreateApplet.
New(c, n, sep) ==
    /\ pc[c] = "start"
    /\ IF new_validate(n) # Ok
       THEN /\ pc' = [pc EXCEPT ![c] = "none"]
            /\ ret' = Return(c, "new", n, 0, 0, -1, new_validate(n))
            /\ UNCHANGED <<stream, app_num, separator_type, sent>>
       ELSE \/ /\ stream' = [stream EXCEPT ![c] = "refused"]
               /\ pc' = [pc EXCEPT ![c] = "none"]
               /\ ret' = Return(c, "new", n, 0, 0, -1, ConnectFailed)
               /\ UNCHANGED <<app_num, separator_type, sent>>
            \/ /\ stream' = [stream EXCEPT ![c] = "open"]
               /\ app_num' = [app_num EXCEPT ![c] = n]
               /\ separator_type' = [separator_type EXCEPT ![c] = sep]
               /\ sent' = [sent EXCEPT ![c] = Append(@, create_command(n, sep))]
               /\ pc' = [pc EXCEPT ![c] = "new_wait"]
               /\ ret' = Blocked(c)
    /\ UNCHANGED <<grid, separator, seen, inbox, nread, rdfail, npoints, owner>>

\* AppletInterface::new from its read_exact on: the status byte decides.
NewReturn(c) ==
    /\ pc[c] = "new_wait"
    /\ \/ /\ CanRead(c)
          /\ inbox' = [inbox EXCEPT ![c] = Tail(@)]
          /\ nread' = [nread EXCEPT ![c] = @ + 1]
          /\ ret' = Return(c, "new", app_num[c], 0, 0, Head(inbox[c]),
                           new_status(Head(inbox[c])))
          /\ IF new_status(Head(inbox[c])) = Ok
             THEN /\ pc' = [pc EXCEPT ![c] = "ready"]
                  /\ grid' = [grid EXCEPT ![c] = [i \in RowIdx |-> [j \in ColIdx |-> 0]]]
                  /\ separator' = [separator EXCEPT ![c] = [j \in ColIdx |-> 0]]
                  /\ UNCHANGED stream
             ELSE /\ pc' = [pc EXCEPT ![c] = "none"]
                  /\ stream' = [stream EXCEPT ![c] = "closed"]
                  /\ UNCHANGED <<grid, separator>>
          /\ UNCHANGED rdfail
       \/ /\ AtEof(c)
          /\ pc' = [pc EXCEPT ![c] = "none"]
          /\ stream' = [stream EXCEPT ![c] = "closed"]
          /\ rdfail' = [rdfail EXCEPT ![c] = TRUE]
          /\ ret' = Return(c, "new", app_num[c], 0, 0, -1, read_failed(BufferInit))
          /\ UNCHANGED <<grid, separator, inbox, nread>>
    /\ UNCHANGED <<app_num, separator_type, sent, seen, npoints, owner>>

\* -------------------------------------------------------------------- board

\* What the board may answer to a command: any status byte, except that it
\* never answers 0 to a CreateApplet for an applet that was already created.
BoardReplies(cmd) ==
    IF cmd.opcode = "CreateApplet" /\ owner[cmd.app_num] # 0
    THEN StatusBytes \ {0}
    ELSE StatusBytes

\* The board reads the next command of a connection and answers one byte,
\* one of `codes` that BoardReplies allows.
BoardAnswer(c, codes) ==
    /\ stream[c] = "open"
    /\ seen[c] < Len(sent[c])
    /\ LET cmd == sent[c][seen[c] + 1] IN
       \E byte \in BoardReplies(cmd) \cap codes :
          /\ inbox' = [inbox EXCEPT ![c] = Append(@, byte)]
          /\ owner' = IF cmd.opcode = "CreateApplet" /\ byte = 0
                       THEN [owner EXCEPT ![cmd.app_num] = c]
                       ELSE owner
    /\ seen' = [seen EXCEPT ![c] = @ + 1]
    /\ UNCHANGED <<pc, stream, app_num, separator_type, grid, separator, sent,
                   nread, rdfail, npoints, ret>>

BoardStep(c) == BoardAnswer(c, StatusBytes)

\* The board (or the network) closes a connection.
PeerClose(c) ==
    /\ stream[c] = "open"
    /\ stream' = [stream EXCEPT ![c] = "peer_closed"]
    /\ UNCHANGED <<pc, app_num, separator_type, grid, separator, sent, seen,
                   inbox, nread, rdfail, npoints, owner, ret>>

\* ------------------------------------------------------------------ setters

\* set_grid: self.grid = array.clone()
set_grid(g, array) == array

\* set_point with its two indices taken the other way round: x names the row.
set_point_row_first(g, x, y, value) ==
    IF x \notin DOMAIN g
    THEN [res |-> Err("InvalidInput", "Invalid row index"), grid |-> g]
    ELSE IF y \notin DOMAIN g[x]
    THEN [res |-> Err("InvalidInput", "Invalid column index"), grid |-> g]
    ELSE [res |-> Ok, grid |-> [g EXCEPT ![x][y] = value]]

\* set_point with the two error messages exchanged.
set_point_messages_swapped(g, x, y, value) ==
    IF y \notin DOMAIN g
    THEN [res |-> Err("InvalidInput", "Invalid column index"), grid |-> g]
    ELSE IF x \notin DOMAIN g[y]
    THEN [res |-> Err("InvalidInput", "Invalid row index"), grid |-> g]
    ELSE [res |-> Ok, grid |-> [g EXCEPT ![y][x] = value]]

\* set_point(x, y, value): self.grid.get_mut(y) names the row, row.get_mut(x)
\* the pixel in it; the pixel is written only when both exist.
set_point(g, x, y, value) ==
    IF y \notin DOMAIN g
    THEN [res |-> Err("InvalidInput", "Invalid row index"), grid |-> g]
    ELSE IF x \notin DOMAIN g[y]
    THEN [res |-> Err("InvalidInput", "Invalid column index"), grid |-> g]
    ELSE [res |-> Ok, grid |-> [g EXCEPT ![y][x] = value]]

\* get_grid: &self.grid
get_grid(c) == grid[c]

\* set_bar: self.separator = array.clone()
set_bar(bar, array) == array

\* get_bar: &self.separator
get_bar(c) == separator[c]

SetGrid(c, array) ==
    /\ pc[c] = "ready"
    /\ grid' = [grid EXCEPT ![c] = set_grid(@, array)]
    /\ ret' = Return(c, "set_grid", 0, 0, 0, -1, Ok)
    /\ UNCHANGED <<pc, stream, app_num, separator_type, separator, sent, seen,
                   inbox, nread, rdfail, npoints, owner>>

SetPoint(c, x, y, value) ==
    /\ pc[c] = "ready"
    /\ npoints[c] < MaxPoints
    /\ npoints' = [npoints EXCEPT ![c] = @ + 1]
    /\ grid' = [grid EXCEPT ![c] = set_point(@, x, y, value).grid]
    /\ ret' = Return(c, "set_point", x, y, value, -1,
                     set_point(grid[c], x, y, value).res)
    /\ UNCHANGED <<pc, stream, app_num, separator_type, separator, sent, seen,
                   inbox, nread, rdfail, owner>>

\* SetBar with the separator-kind check of write_bar moved into it.
SetBarChecked(c, array) ==
    /\ pc[c] = "ready"
    /\ separator' = [separator EXCEPT ![c] =
                        IF separator_type[c] = "Variable" THEN array ELSE @]
    /\ ret' = Return(c, "set_bar", 0, 0, 0, -1,
                     IF separator_type[c] = "Variable"
                     THEN Ok
                     ELSE Err("InvalidInput", "separator not variable"))
    /\ UNCHANGED <<pc, stream, app_num, separator_type, grid, sent, seen,
                   inbox, nread, rdfail, npoints, owner>>

SetBar(c, array) ==
    /\ pc[c] = "ready"
    /\ separator' = [separator EXCEPT ![c] = set_bar(@, array)]
    /\ ret' = Return(c, "set_bar", 0, 0, 0, -1, Ok)
    /\ UNCHANGED <<pc, stream, app_num, separator_type, grid, sent, seen,
                   inbox, nread, rdfail, npoints, owner>>

\* --------------------------------------------------------------- write_grid

\* grid_index taken column by column.
grid_index_column_major(i, j) == j * 10 + i

\* write_grid: command.parameters[i*9+j] = self.grid[i][j]
grid_index(i, j) == i * 9 + j

\* write_grid: for j in 0..9 { command.parameters[i*9+j] = self.grid[i][j] }
\* What the inner loop writes for row i: each index it touches, with the value
\* of the last j that touched it.
grid_row_writes(g, i) ==
    [k \in {grid_index(i, j) : j \in 0..(9 - 1)} |->
        LET last == CHOOSE j \in 0..(9 - 1) :
                        /\ grid_index(i, j) = k
                        /\ \A o \in 0..(9 - 1) : grid_index(i, o) = k => o <= j
        IN g[i][last]]

\* write_grid: for i in 0..10 { ... }, from row i on, over the parameters so far.
RECURSIVE grid_fill(_, _, _)
grid_fill(parameters, g, i) ==
    IF i = 10
    THEN parameters
    ELSE grid_fill(grid_row_writes(g, i) @@ parameters, g, i + 1)

\* write_grid: parameters: vec![0; 90], then the two loops.
grid_parameters(g) == grid_fill(ZeroVec(90), g, 0)

update_grid_command(n, g) == Command("UpdateGrid", n, grid_parameters(g))

\* write_grid_status with the arm of 32 returning success.
write_grid_status_32_ok(byte) ==
    CASE byte = 0 -> Ok
      [] byte = 10 -> Err("InvalidData", "Board could not read data from stream")
      [] byte = 20 -> Err("InvalidData", "Data not in UTF-8")
      [] byte = 21 -> Err("InvalidData", "Data not in JSON")
      [] byte = 30 -> Err("InvalidInput", "Command uses invalid applet number")
      [] byte = 31 -> Err("InvalidInput", "Command uses wrong applet number")
      [] byte = 32 -> Ok
      [] byte = 33 -> Err("AlreadyExists", "Applet already exists during create applet command")
      [] byte = 40 -> Err("InvalidInput", "Command uses invalid separator number")
      [] OTHER -> Err("Other", "Unkown Error")

\* write_grid / write_bar: match buffer[0] { 0 => Ok(()), 10 => ... }
write_grid_status(byte) ==
    CASE byte = 0 -> Ok
      [] byte = 10 -> Err("InvalidData", "Board could not read data from stream")
      [] byte = 20 -> Err("InvalidData", "Data not in UTF-8")
      [] byte = 21 -> Err("InvalidData", "Data not in JSON")
      [] byte = 30 -> Err("InvalidInput", "Command uses invalid applet number")
      [] byte = 31 -> Err("InvalidInput", "Command uses wrong applet number")
      [] byte = 32 -> Err("Other", "Command failed")
      [] byte = 33 -> Err("AlreadyExists", "Applet already exists during create applet command")
      [] byte = 40 -> Err("InvalidInput", "Command uses invalid separator number")
      [] OTHER -> Err("Other", "Unkown Error")

\* write_bar_status whose catch-all arm returns success.
write_bar_status_default_ok(byte) ==
    CASE byte = 0 -> Ok
      [] byte = 10 -> Err("InvalidData", "Board could not read data from stream")
      [] byte = 20 -> Err("InvalidData", "Data not in UTF-8")
      [] byte = 21 -> Err("InvalidData", "Data not in JSON")
      [] byte = 30 -> Err("InvalidInput", "Command uses invalid applet number")
      [] byte = 31 -> Err("InvalidInput", "Command uses wrong applet number")
      [] byte = 32 -> Err("Other", "Command failed")
      [] byte = 33 -> Err("AlreadyExists", "Applet already exists during create applet command")
      [] byte = 40 -> Err("InvalidInput", "Command uses invalid separator number")
      [] OTHER -> Ok

write_bar_status(byte) ==
    CASE byte = 0 -> Ok
      [] byte = 10 -> Err("InvalidData", "Board could not read data from stream")
      [] byte = 20 -> Err("InvalidData", "Data not in UTF-8")
      [] byte = 21 -> Err("InvalidData", "Data not in JSON")
      [] byte = 30 -> Err("InvalidInput", "Command uses invalid applet number")
      [] byte = 31 -> Err("InvalidInput", "Command uses wrong applet number")
      [] byte = 32 -> Err("Other", "Command failed")
      [] byte = 33 -> Err("AlreadyExists", "Applet already exists during create applet command")
      [] byte = 40 -> Err("InvalidInput", "Command uses invalid separator number")
      [] OTHER -> Err("Other", "Unkown Error")

\* WriteGrid without the read_exact that follows the write: the call returns
\* as soon as the command is written.
WriteGridNoRead(c) ==
    /\ pc[c] = "ready"
    /\ Len(sent[c]) < MaxCmds
    /\ \E s \in write_all(c, update_grid_command(app_num[c], grid[c])) :
          sent' = [sent EXCEPT ![c] = s]
    /\ ret' = Return(c, "write_grid", 0, 0, 0, -1, Ok)
    /\ UNCHANGED <<pc, stream, app_num, separator_type, grid, separator, seen,
                   inbox, nread, rdfail, npoints, owner>>

\* WriteGrid clearing the mirror once the command is built.
WriteGridClears(c) ==
    /\ pc[c] = "ready"
    /\ Len(sent[c]) < MaxCmds
    /\ \E s \in write_all(c, update_grid_command(app_num[c], grid[c])) :
          sent' = [sent EXCEPT ![c] = s]
    /\ grid' = [grid EXCEPT ![c] = ZeroGrid]
    /\ pc' = [pc EXCEPT ![c] = "grid_wait"]
    /\ ret' = Blocked(c)
    /\ UNCHANGED <<stream, app_num, separator_type, separator, seen,
                   inbox, nread, rdfail, npoints, owner>>

\* WriteGrid opening a new connection when the peer has closed the old one.
WriteGridReconnect(c) ==
    /\ pc[c] = "ready"
    /\ Len(sent[c]) < MaxCmds
    /\ stream' = [stream EXCEPT ![c] = "open"]
    /\ sent' = [sent EXCEPT ![c] =
                   Append(@, update_grid_command(app_num[c], grid[c]))]
    /\ pc' = [pc EXCEPT ![c] = "grid_wait"]
    /\ ret' = Blocked(c)
    /\ UNCHANGED <<app_num, separator_type, grid, separator, seen,
                   inbox, nread, rdfail, npoints, owner>>

\* write_grid up to its read_exact: build the command and write it.
WriteGrid(c) ==
    /\ pc[c] = "ready"
    /\ Len(sent[c]) < MaxCmds
    /\ \E s \in write_all(c, update_grid_command(app_num[c], grid[c])) :
          sent' = [sent EXCEPT ![c] = s]
    /\ pc' = [pc EXCEPT ![c] = "grid_wait"]
    /\ ret' = Blocked(c)
    /\ UNCHANGED <<stream, app_num, separator_type, grid, separator, seen,
                   inbox, nread, rdfail, npoints, owner>>

\* WriteGridReturn resending the command when the status byte is not 0.
WriteGridReturnRetry(c) ==
    /\ pc[c] = "grid_wait"
    /\ \/ /\ CanRead(c)
          /\ inbox' = [inbox EXCEPT ![c] = Tail(@)]
          /\ nread' = [nread EXCEPT ![c] = @ + 1]
          /\ IF Head(inbox[c]) # 0 /\ Len(sent[c]) < MaxCmds /\ stream[c] = "open"
             THEN /\ sent' = [sent EXCEPT ![c] =
                                 Append(@, update_grid_command(app_num[c], grid[c]))]
                  /\ UNCHANGED <<pc, ret>>
             ELSE /\ ret' = Return(c, "write_grid", 0, 0, 0, Head(inbox[c]),
                                   write_grid_status(Head(inbox[c])))
                  /\ pc' = [pc EXCEPT ![c] = "ready"]
                  /\ UNCHANGED sent
          /\ UNCHANGED rdfail
       \/ /\ AtEof(c)
          /\ rdfail' = [rdfail EXCEPT ![c] = TRUE]
          /\ ret' = Return(c, "write_grid", 0, 0, 0, -1, read_failed(BufferInit))
          /\ pc' = [pc EXCEPT ![c] = "ready"]
          /\ UNCHANGED <<inbox, nread, sent>>
    /\ UNCHANGED <<stream, app_num, separator_type, grid, separator,
                   seen, npoints, owner>>

\* write_grid from its read_exact on.
WriteGridReturn(c) ==
    /\ pc[c] = "grid_wait"
    /\ \/ /\ CanRead(c)
          /\ inbox' = [inbox EXCEPT ![c] = Tail(@)]
          /\ nread' = [nread EXCEPT ![c] = @ + 1]
          /\ ret' = Return(c, "write_grid", 0, 0, 0, Head(inbox[c]),
                           write_grid_status(Head(inbox[c])))
          /\ UNCHANGED rdfail
       \/ /\ AtEof(c)
          /\ rdfail' = [rdfail EXCEPT ![c] = TRUE]
          /\ ret' = Return(c, "write_grid", 0, 0, 0, -1, read_failed(BufferInit))
          /\ UNCHANGED <<inbox, nread>>
    /\ pc' = [pc EXCEPT ![c] = "ready"]
    /\ UNCHANGED <<stream, app_num, separator_type, grid, separator, sent,
                   seen, npoints, owner>>

\* ---------------------------------------------------------------- write_bar

\* write_bar_check with a second kind let through.
write_bar_check_dotted(sep) ==
    IF sep \in {"Variable", "Dotted"}
    THEN Ok
    ELSE Err("InvalidInput", "separator not variable")

\* write_bar: match self.separator_type { Variable => (), _ => return Err }
write_bar_check(sep) ==
    IF sep = "Variable" THEN Ok ELSE Err("InvalidInput", "separator not variable")

\* write_bar: for i in 0..9 { command.parameters[i] = self.separator[i] }
RECURSIVE bar_fill(_, _, _)
bar_fill(parameters, bar, i) ==
    IF i = 9
    THEN parameters
    ELSE bar_fill([parameters EXCEPT ![i] = bar[i]], bar, i + 1)

update_bar_command(n, bar) ==
    Command("UpdateBar", n, bar_fill(ZeroVec(9), bar, 0))

\* write_bar up to its read_exact (or to its early return).
WriteBar(c) ==
    /\ pc[c] = "ready"
    /\ IF write_bar_check(separator_type[c]) # Ok
       THEN /\ ret' = Return(c, "write_bar", 0, 0, 0, -1,
                             write_bar_check(separator_type[c]))
            /\ UNCHANGED <<pc, sent>>
       ELSE /\ Len(sent[c]) < MaxCmds
            /\ \E s \in write_all(c, update_bar_command(app_num[c], separator[c])) :
                  sent' = [sent EXCEPT ![c] = s]
            /\ pc' = [pc EXCEPT ![c] = "bar_wait"]
            /\ ret' = Blocked(c)
    /\ UNCHANGED <<stream, app_num, separator_type, grid, separator, seen,
                   inbox, nread, rdfail, npoints, owner>>

\* write_bar from its read_exact on.
WriteBarReturn(c) ==
    /\ pc[c] = "bar_wait"
    /\ \/ /\ CanRead(c)
          /\ inbox' = [inbox EXCEPT ![c] = Tail(@)]
          /\ nread' = [nread EXCEPT ![c] = @ + 1]
          /\ ret' = Return(c, "write_bar", 0, 0, 0, Head(inbox[c]),
                           write_bar_status(Head(inbox[c])))
          /\ UNCHANGED rdfail
       \/ /\ AtEof(c)
          /\ rdfail' = [rdfail EXCEPT ![c] = TRUE]
          /\ ret' = Return(c, "write_bar", 0, 0, 0, -1, read_failed(BufferInit))
          /\ UNCHANGED <<inbox, nread>>
    /\ pc' = [pc EXCEPT ![c] = "ready"]
    /\ UNCHANGED <<stream, app_num, separator_type, grid, separator, sent,
                   seen, npoints, owner>>

\* ----------------------------------------------------------- specifications

\* Coordinates and values handed to set_point in Spec: the first cell and the
\* first index past each dimension.
PointXs == {0, COLS}
PointYs == {0, ROWS}
PointVals == {255}

\* One session and its board: every operation of the interface.
Next ==
    \/ \E n \in AppNums, sep \in Separator : New(1, n, sep)
    \/ NewReturn(1)
    \/ BoardStep(1)
    \/ PeerClose(1)
    \/ \E array \in GridInputs : SetGrid(1, array)
    \/ \E x \in PointXs, y \in PointYs, value \in PointVals : SetPoint(1, x, y, value)
    \/ \E array \in BarInputs : SetBar(1, array)
    \/ WriteGrid(1)
    \/ WriteGridReturn(1)
    \/ WriteBar(1)
    \/ WriteBarReturn(1)

Spec == Init /\ [][Next]_vars

\* Several callers race to create applets on one board.  The board answers a
\* CreateApplet with success, with one of the two "already exists" codes or
\* with the unknown code.
CreateCodes == {0, 33, 34, 255}
CreateAppNums == {0, MaxAppNum}

NextCreate ==
    \E c \in Conns :
        \/ \E n \in CreateAppNums : New(c, n, "Variable")
        \/ NewReturn(c)
        \/ BoardAnswer(c, CreateCodes)
        \/ PeerClose(c)

SpecCreate == Init /\ [][NextCreate]_vars

\* One session on an agreeable board: the grid setters over every coordinate
\* of the grid and the two indices past each dimension.
AllXs == 0..(COLS + 1)
AllYs == 0..(ROWS + 1)
AllVals == {0, 255}

NextPoint ==
    \/ New(1, MaxAppNum, "Solid")
    \/ NewReturn(1)
    \/ BoardAnswer(1, {0})
    \/ \E array \in GridInputs : SetGrid(1, array)
    \/ \E x \in AllXs, y \in AllYs, value \in AllVals : SetPoint(1, x, y, value)

SpecPoint == Init /\ [][NextPoint]_vars

\* tests::applet_0_grid_fail: the grid the test sets.
TestGrid == [i \in RowIdx |-> [j \in ColIdx |-> 5]]

\* The answer of a board that works as documented and is asked nothing wrong
\* but a grid for the privileged applet: 34 to a CreateApplet of an applet
\* that exists, 32 to an UpdateGrid of applet 0, 0 otherwise.
Applet0Reply(cmd) ==
    CASE cmd.opcode = "CreateApplet" -> IF owner[cmd.app_num] # 0 THEN 34 ELSE 0
      [] cmd.opcode = "UpdateGrid" -> IF cmd.app_num = 0 THEN 32 ELSE 0
      [] OTHER -> 0

Applet0Board(c) ==
    /\ seen[c] < Len(sent[c])
    /\ BoardAnswer(c, {Applet0Reply(sent[c][seen[c] + 1])})

\* One session on applet 0 with a Variable separator against that board,
\* which keeps the connection open.
NextApplet0 ==
    \/ New(1, 0, "Variable")
    \/ NewReturn(1)
    \/ Applet0Board(1)
    \/ SetGrid(1, TestGrid)
    \/ \E bar \in BarInputs : SetBar(1, bar)
    \/ WriteGrid(1)
    \/ WriteGridReturn(1)
    \/ WriteBar(1)
    \/ WriteBarReturn(1)

SpecApplet0 == Init /\ [][NextApplet0]_vars

\* ------------------------------------------------------------------- claims

\* What the claims call "no network effect" of a step on slot c.
NoNetwork(c) ==
    /\ stream'[c] = stream[c]
    /\ sent'[c] = sent[c]
    /\ inbox'[c] = inbox[c]
    /\ nread'[c] = nread[c]

Last(seq) == seq[Len(seq)]

\* C1: new() with an applet number above 3 returns the InvalidInput error
\* "app_num maximum is 3", yields no session, and has opened no connection and
\* sent no command; with an applet number in 0..3 validation passes and a
\* connection attempt is made.
C1_InvalidAppNumNoNetwork ==
    /\ \A c \in Conns :
          (ret.conn = c /\ ret.op = "new" /\ ret.a > 3) =>
              /\ ret.res = Err("InvalidInput", "app_num maximum is 3")
              /\ pc[c] = "none"
              /\ stream[c] = "unopened"
              /\ sent[c] = <<>>
    /\ \A c \in Conns :
          (ret.conn = c /\ ret.op = "new" /\ ret.a <= 3) =>
              /\ ret.res.kind # "InvalidInput"
              /\ stream[c] # "unopened"
    /\ \A c \in Conns : pc[c] = "new_wait" => app_num[c] <= 3 /\ stream[c] # "unopened"
    /\ \A c \in Conns : \A k \in 1..Len(sent[c]) : sent[c][k].app_num <= 3

C1_Witness ==
    /\ ret.op = "new" /\ ret.a = 4
    /\ ret.res.kind = "InvalidInput"
    /\ stream[ret.conn] = "unopened"

\* C2: an UpdateBar command is on a session's wire only if the session's
\* separator kind is Variable; on an Empty, Solid or Dotted session write_bar
\* returns InvalidInput "separator not variable", and the step writes nothing
\* to the stream, reads no status byte and leaves grid and bar as they were.
C2_BarOnlyWhenVariable ==
    /\ [](\A c \in Conns : \A k \in 1..Len(sent[c]) :
            sent[c][k].opcode = "UpdateBar" => separator_type[c] = "Variable")
    /\ [](\A c \in Conns :
            (/\ ret.conn = c /\ ret.op = "write_bar"
             /\ separator_type[c] \in {"Empty", "Solid", "Dotted"})
            => /\ ret.res = Err("InvalidInput", "separator not variable")
               /\ ret.byte = -1)
    /\ [][\A c \in Conns :
            (/\ ret' # ret /\ ret'.conn = c /\ ret'.op = "write_bar"
             /\ separator_type[c] \in {"Empty", "Solid", "Dotted"})
            => /\ NoNetwork(c)
               /\ grid'[c] = grid[c]
               /\ separator'[c] = separator[c]]_vars

C2_Witness ==
    /\ ret.op = "write_bar"
    /\ separator_type[ret.conn] = "Dotted"
    /\ ret.res = Err("InvalidInput", "separator not variable")
    /\ separator[ret.conn] # ZeroBar
    /\ Len(sent[ret.conn]) = 1

\* C3 as stated: a command goes onto a session's wire only when the status
\* byte of every command sent before it on that session has been received.
C3_SentOnlyAfterStatusByte ==
    [][\A c \in Conns :
          Len(sent'[c]) > Len(sent[c]) => nread[c] = Len(sent[c])]_vars

\* C3, amended: a command goes onto a session's wire only when no call of the
\* session is blocked and either the status byte of every earlier command has
\* been received or a read_exact of the session has failed; and as long as no
\* read has failed, at most one command awaits its status byte, none when no
\* call is blocked.
C3_SentOnlyAfterReturn ==
    /\ [][\A c \in Conns :
            Len(sent'[c]) > Len(sent[c]) =>
                /\ pc[c] \in {"start", "ready"}
                /\ nread[c] = Len(sent[c]) \/ rdfail[c]]_vars
    /\ [](\A c \in Conns :
            ~rdfail[c] =>
                /\ Len(sent[c]) - nread[c] <= 1
                /\ pc[c] = "ready" => Len(sent[c]) = nread[c])

\* The ordering scenario: write_grid, then write_bar after its status byte.
C3_Witness ==
    /\ Len(sent[1]) = 3
    /\ sent[1][2].opcode = "UpdateGrid"
    /\ sent[1][3].opcode = "UpdateBar"
    /\ nread[1] = 2
    /\ ~rdfail[1]

\* A step in which slot c calls set_point (ret' holds its arguments).
SetPointStep(c) == npoints'[c] # npoints[c]

\* C4 as stated, the arguments read in the order the claim writes them,
\* set_point(row, col, v): with row in 0..9 and col in 0..8 the call succeeds,
\* the grid then holds v at [row][col] and every other cell is unchanged.
C4_SetPointRowCol ==
    [][\A c \in Conns :
          (SetPointStep(c) /\ ret'.a \in 0..9 /\ ret'.b \in 0..8) =>
              /\ ret'.res = Ok
              /\ grid'[c][ret'.a][ret'.b] = ret'.v
              /\ \A i \in 0..9, j \in 0..8 :
                    <<i, j>> # <<ret'.a, ret'.b>> => grid'[c][i][j] = grid[c][i][j]]_vars

\* C4, amended: set_point(x, y, v) takes the column index first and the row
\* index second; with x in 0..8 and y in 0..9 the call succeeds, get_grid()
\* then holds v at [y][x] and every other cell is unchanged.
C4_SetPointColRow ==
    [][\A c \in Conns :
          (SetPointStep(c) /\ ret'.a \in 0..8 /\ ret'.b \in 0..9) =>
              /\ ret'.res = Ok
              /\ grid'[c][ret'.b][ret'.a] = ret'.v
              /\ \A i \in 0..9, j \in 0..8 :
                    <<i, j>> # <<ret'.b, ret'.a>> => grid'[c][i][j] = grid[c][i][j]]_vars

\* set_point(8, 9, 255) on pattern1 has written the last cell of the last row.
C4_Witness ==
    /\ ret.op = "set_point" /\ ret.a = 8 /\ ret.b = 9 /\ ret.v = 255
    /\ ret.res = Ok
    /\ get_grid(ret.conn)[9][8] = 255
    /\ get_grid(ret.conn)[8][8] = 89

RowError == Err("InvalidInput", "Invalid row index")
ColumnError == Err("InvalidInput", "Invalid column index")

\* C5 as stated: a row index of 10 or more fails with the error that names
\* the row, a column index of 9 or more fails with the error that names the
\* column, and a failing set_point changes neither the grid nor the network.
C5_BoundsEachOwnError ==
    [][\A c \in Conns :
          SetPointStep(c) =>
              /\ ret'.b >= 10 => ret'.res = RowError
              /\ ret'.a >= 9 => ret'.res = ColumnError
              /\ ret'.res # Ok => grid'[c] = grid[c] /\ NoNetwork(c)]_vars

\* C5, amended: a row index of 10 or more fails with the error that names the
\* row, whatever the column index; a column index of 9 or more with a row index
\* below 10 fails with the error that names the column; and a failing
\* set_point changes neither the grid nor the network.
C5_BoundsRowFirst ==
    [][\A c \in Conns :
          SetPointStep(c) =>
              /\ ret'.b >= 10 => ret'.res = RowError
              /\ (ret'.b < 10 /\ ret'.a >= 9) => ret'.res = ColumnError
              /\ ret'.res # Ok => grid'[c] = grid[c] /\ NoNetwork(c)]_vars

\* Both indices at their bounds: the row error is the one reported.
C5_Witness ==
    /\ ret.op = "set_point" /\ ret.a = 9 /\ ret.b = 10
    /\ ret.res = RowError
    /\ grid[ret.conn] = Pattern1

UnknownError == Err("Other", "Unkown Error")
\* The non-zero codes of the status table.
TabledErrors == {10, 20, 21, 30, 31, 32, 33, 34, 40}

\* A write_grid or write_bar has returned after reading a status byte.
WriteReturned == ret.op \in {"write_grid", "write_bar"} /\ ret.byte # -1

\* C6: a write_grid or write_bar that has sent its command returns success
\* exactly when the status byte it read is 0; every other byte gives an error,
\* and a byte outside the status table gives the "unknown" error.
C6_SuccessIffZero ==
    /\ ret.op \in {"write_grid", "write_bar"} /\ ret.res = Ok => ret.byte = 0
    /\ WriteReturned =>
          /\ ret.res = Ok <=> ret.byte = 0
          /\ ret.byte \notin ({0} \cup TabledErrors) => ret.res = UnknownError

C6_Witness ==
    /\ ret.op = "write_bar"
    /\ ret.byte = 255
    /\ ret.res = UnknownError

\* C7: every non-zero code of the status table is mapped, by write_grid and
\* by write_bar alike, to an error other than the "unknown" one; 33 and 34
\* both to the "applet already exists" error.
C7_TabledCodesMapped ==
    (WriteReturned /\ ret.byte \in TabledErrors) =>
        /\ ret.res # Ok
        /\ ret.res # UnknownError
        /\ ret.byte \in {33, 34} => ret.res.kind = "AlreadyExists"
        /\ write_grid_status(ret.byte) = write_bar_status(ret.byte)

\* C8: when new() has read the status byte of its CreateApplet, a non-zero
\* byte makes it return ConnectionRefused "Board refused connection", which no
\* status byte makes write_grid or write_bar return, and leaves no session; a
\* zero byte makes it return a session whose grid and bar are all zeros.
C8_Handshake ==
    \A c \in Conns :
        (ret.conn = c /\ ret.op = "new" /\ ret.byte # -1) =>
            /\ ret.byte # 0 =>
                  /\ ret.res = Err("ConnectionRefused", "Board refused connection")
                  /\ pc[c] = "none"
                  /\ \A byte \in Byte :
                        /\ write_grid_status(byte).kind # ret.res.kind
                        /\ write_bar_status(byte).kind # ret.res.kind
            /\ ret.byte = 0 =>
                  /\ ret.res = Ok
                  /\ pc[c] = "ready"
                  /\ \A i \in 0..9, j \in 0..8 : get_grid(c)[i][j] = 0
                  /\ \A j \in 0..8 : get_bar(c)[j] = 0

C8_Witness ==
    /\ ret.op = "new"
    /\ ret.byte = 34
    /\ ret.res.kind = "ConnectionRefused"
    /\ pc[ret.conn] = "none"

\* What a peer reads back from 90 parameters taken as 10 rows of 9.
decode_grid(parameters) == [i \in 0..9 |-> [j \in 0..8 |-> parameters[i * 9 + j]]]

Live(c) == pc[c] \in {"ready", "grid_wait", "bar_wait"}

\* C10: on a board that never answers 0 to a CreateApplet for an applet that
\* was already created, no two sessions hold the same applet number; a new()
\* for an applet number that a session holds returns the ConnectionRefused
\* error and no session; and a failing new() changes nothing of any other
\* slot's session, connection or mirrors.
C10_OneSessionPerApplet ==
    /\ [](\A c, d \in Conns :
            (c # d /\ Live(c) /\ Live(d)) => app_num[c] # app_num[d])
    /\ [](\A c \in Conns :
            (/\ ret.conn = c /\ ret.op = "new" /\ ret.byte # -1
             /\ \E d \in Conns \ {c} : Live(d) /\ app_num[d] = ret.a)
            => /\ ret.res = Err("ConnectionRefused", "Board refused connection")
               /\ pc[c] = "none")
    /\ [][\A c \in Conns :
            (ret' # ret /\ ret'.conn = c /\ ret'.op = "new" /\ ret'.res # Ok)
            => \A d \in Conns \ {c} :
                  /\ pc'[d] = pc[d]
                  /\ NoNetwork(d)
                  /\ grid'[d] = grid[d]
                  /\ separator'[d] = separator[d]]_vars

\* Slot 1 holds applet 0; slot 2's new() for applet 0 was answered 34.
C10_Witness ==
    /\ pc[1] = "ready" /\ app_num[1] = 0 /\ stream[1] = "open"
    /\ ret.conn = 2 /\ ret.op = "new" /\ ret.a = 0 /\ ret.byte = 34
    /\ ret.res.kind = "ConnectionRefused"
    /\ pc[2] = "none"

C12_CreateFirstAndOnce ==
    \A c \in Conns :
        /\ sent[c] # <<>> => sent[c][1].opcode = "CreateApplet"
        /\ \A k \in 2..Len(sent[c]) :
               /\ sent[c][k].opcode \in {"UpdateGrid", "UpdateBar"}
               /\ owner[app_num[c]] = c
               /\ nread[c] >= 1
        /\ \A k \in 1..Len(sent[c]) : sent[c][k].app_num = app_num[c]

\* A session on applet 3 has sent CreateApplet, UpdateBar and UpdateGrid.
C12_Witness ==
    /\ Len(sent[1]) = 3
    /\ sent[1][1].opcode = "CreateApplet"
    /\ sent[1][2].opcode = "UpdateBar"
    /\ sent[1][3].opcode = "UpdateGrid"
    /\ app_num[1] = 3 /\ sent[1][3].app_num = 3
    /\ owner[3] = 1

\* A step in which a call of slot c starts waiting for its status byte.
CallStarts(c) ==
    /\ pc[c] \in {"start", "ready"}
    /\ pc'[c] \in {"new_wait", "grid_wait", "bar_wait"}

\* A step in which a call of slot c stops waiting for its status byte.
ReadReturns(c) ==
    /\ pc[c] \in {"new_wait", "grid_wait", "bar_wait"}
    /\ pc'[c] # pc[c]

\* C13 as stated: after any sequence of operations the commands sent on a
\* connection are as many as the status bytes consumed, plus at most one.
C13_SentIsReadPlusOne ==
    \A c \in Conns : Len(sent[c]) - nread[c] \in {0, 1}

\* C13, amended: no retry, resend or reconnect. A command is sent only by the
\* step that starts a call, one at most; the step that ends a call consumes
\* one status byte, whatever the byte, or none when read_exact fails, and
\* sends nothing; a connection is opened once. Hence the status bytes consumed
\* never exceed the commands sent, and while no read_exact has failed the
\* commands sent are the bytes consumed plus at most one.
C13_NoRetry ==
    /\ [][\A c \in Conns :
            /\ Len(sent'[c]) # Len(sent[c]) =>
                  /\ CallStarts(c)
                  /\ Len(sent'[c]) = Len(sent[c]) + 1
            /\ nread'[c] # nread[c] =>
                  /\ ReadReturns(c)
                  /\ nread'[c] = nread[c] + 1
            /\ ReadReturns(c) =>
                  /\ ret'.conn = c
                  /\ ret'.byte # -1 <=> nread'[c] = nread[c] + 1
                  /\ ret'.byte = -1 <=> (ret'.res = UnexpectedEof /\ nread'[c] = nread[c])
                  /\ pc'[c] \in {"ready", "none"}
            /\ (stream'[c] = "open" /\ stream[c] # "open") =>
                  stream[c] = "unopened"]_vars
    /\ [](\A c \in Conns :
            /\ nread[c] <= Len(sent[c])
            /\ ~rdfail[c] => Len(sent[c]) \in {nread[c], nread[c] + 1})

\* write_grid has consumed the status byte 30 of its one command and returned
\* the error; nothing was resent.
C13_Witness ==
    /\ ret.op = "write_grid" /\ ret.byte = 30
    /\ pc[1] = "ready"
    /\ Len(sent[1]) = 2 /\ nread[1] = 2 /\ seen[1] = 2
    /\ inbox[1] = <<>>

\* C14: a session's mirrors start as zeros and change only in a step of its
\* own set_grid, set_point or set_bar; the steps of write_grid and write_bar,
\* whatever they return, and the board's steps leave grid, separator, app_num
\* and separator_type as they were; so a write_grid that follows a write_grid
\* with no other call between them sends the very same command again.
C14_MirrorsSetByClientOnly ==
    [][\A c \in Conns :
          /\ (pc[c] = "new_wait" /\ pc'[c] = "ready") =>
                (grid'[c] = ZeroGrid /\ separator'[c] = ZeroBar)
          /\ Live(c) =>
                /\ app_num'[c] = app_num[c]
                /\ separator_type'[c] = separator_type[c]
                /\ (grid'[c] # grid[c] \/ separator'[c] # separator[c]) =>
                      /\ pc[c] = "ready" /\ pc'[c] = "ready"
                      /\ ret'.conn = c
                      /\ ret'.op \in {"set_grid", "set_point", "set_bar"}
                      /\ NoNetwork(c)
          /\ (/\ Len(sent'[c]) > Len(sent[c])
              /\ Last(sent'[c]).opcode = "UpdateGrid"
              /\ ret.conn = c /\ ret.op = "write_grid" /\ ret.byte # -1) =>
                /\ Last(sent[c]).opcode = "UpdateGrid"
                /\ Last(sent'[c]) = Last(sent[c])
                /\ decode_grid(Last(sent'[c]).parameters) = grid[c]]_vars

\* write_grid was answered and then called again: the two UpdateGrid
\* commands on the wire are the same and carry the grid set before the first.
C14_Witness ==
    /\ pc[1] = "grid_wait"
    /\ Len(sent[1]) = 3
    /\ sent[1][2].opcode = "UpdateGrid"
    /\ sent[1][3] = sent[1][2]
    /\ grid[1] = Pattern1
    /\ decode_grid(sent[1][3].parameters) = Pattern1
    /\ nread[1] = 2

\* The outcomes the status taxonomy of new, write_grid and write_bar can give.
StatusOutcomes ==
    {new_status(b) : b \in Byte} \cup {write_grid_status(b) : b \in Byte}
        \cup {write_bar_status(b) : b \in Byte}

\* C15: a call of new, write_grid or write_bar whose wait ends with no status
\* byte received, the connection being closed, returns the read's I/O error:
\* not success and none of the outcomes a status byte maps to, the "Unkown
\* Error" that the initial buffer value 255 would map to included.
C15_EofIsIoError ==
    [][\A c \in Conns :
          (ReadReturns(c) /\ nread'[c] = nread[c]) =>
              /\ inbox[c] = <<>> /\ stream[c] = "peer_closed"
              /\ ret'.conn = c
              /\ ret'.op \in {"new", "write_grid", "write_bar"}
              /\ ret'.res.kind = "UnexpectedEof"
              /\ ret'.res # Ok
              /\ ret'.res \notin StatusOutcomes
              /\ ret'.res # write_grid_status(BufferInit)
              /\ ret'.res # new_status(BufferInit)]_vars

\* The peer closed the connection while write_bar waited for its status byte.
C15_Witness ==
    /\ ret.op = "write_bar" /\ ret.byte = -1
    /\ ret.res = UnexpectedEof
    /\ stream[ret.conn] = "peer_closed"
    /\ rdfail[ret.conn]
    /\ Len(sent[ret.conn]) = 2 /\ nread[ret.conn] = 1

\* A write of slot c has returned the error of a status byte.
StatusError(c) ==
    /\ ret.conn = c /\ ret.op \in {"write_grid", "write_bar"}
    /\ ret.byte \notin {-1, 0}

\* C16: after a write returned the error of a status byte the session is
\* Created as before: nothing guards the next write_grid, which sends a fresh
\* command. A write begun after the peer closed the connection never returns
\* success, and a connection that is no longer open is never open again, nor
\* does a session that has lost it get another.
C16_SessionStates ==
    /\ [](\A c \in Conns :
            StatusError(c) =>
                /\ pc[c] = "ready"
                /\ Len(sent[c]) < MaxCmds => ENABLED WriteGrid(c))
    /\ [][\A c \in Conns :
            /\ (StatusError(c) /\ CallStarts(c)) =>
                  /\ ret' = Blocked(c)
                  /\ stream[c] = "open" =>
                        /\ Len(sent'[c]) = Len(sent[c]) + 1
                        /\ Last(sent'[c]).opcode \in {"UpdateGrid", "UpdateBar"}
            /\ (/\ ReadReturns(c)
                /\ ret.op = "blocked" /\ ret.a = 1
                /\ ret'.op \in {"write_grid", "write_bar"}) =>
                  /\ ret'.res # Ok
                  /\ ret'.byte = -1
            /\ stream[c] \in {"peer_closed", "closed", "refused"} =>
                  stream'[c] \notin {"open", "unopened"}
            /\ pc[c] = "none" => pc'[c] = "none"]_vars

\* write_grid returned the error of a status byte, the session called again,
\* the fresh command is on the wire and the board's answer to it is 0.
C16_Witness ==
    /\ pc[1] \in {"grid_wait", "bar_wait"}
    /\ ret.op = "blocked" /\ ret.conn = 1 /\ ret.b = 1 /\ ret.a = 0
    /\ Len(sent[1]) = 3 /\ nread[1] = 2
    /\ inbox[1] = <<0>>

\* C17: on a session of applet 0 with a Variable separator, against a board
\* that answers 32 to every UpdateGrid of applet 0, every write_bar that
\* returns has succeeded, one called after a failed write_grid too, set_grid
\* succeeds, and every write_grid that returns has read 32 and failed.
C17_Applet0GridRefused ==
    /\ (ret.op = "write_bar" /\ app_num[ret.conn] = 0) =>
          (ret.res = Ok /\ ret.byte = 0)
    /\ (ret.op = "set_grid" /\ app_num[ret.conn] = 0) =>
          (ret.res = Ok /\ get_grid(ret.conn) = TestGrid)
    /\ (ret.op = "write_grid" /\ app_num[ret.conn] = 0) =>
          /\ ret.byte = 32
          /\ ret.res.kind # "Ok"
          /\ ret.res = Err("Other", "Command failed")
          /\ pc[ret.conn] = "ready"

\* set_grid([[5; 9]; 10]), write_grid answered 32, then write_bar succeeded.
C17_Witness ==
    /\ ret.op = "write_bar" /\ ret.res = Ok /\ ret.conn = 1
    /\ app_num[1] = 0 /\ separator_type[1] = "Variable"
    /\ grid[1] = TestGrid
    /\ Len(sent[1]) = 3
    /\ sent[1][2].opcode = "UpdateGrid"
    /\ sent[1][3].opcode = "UpdateBar"
    /\ nread[1] = 3

\* C18: new, write_grid and write_bar go on to wait for a status byte, and so
\* can return success, only when write_all has put the whole command on the
\* wire; a call whose write_all fails returns an error without waiting.
C18_SendFailureReported ==
    [][\A c \in Conns :
          CallStarts(c) => Len(sent'[c]) = Len(sent[c]) + 1]_vars

====
